---- MODULE Spec2Model ----
(***************************************************************************)
(* Model of the video_pipeline workflow orchestration engine:              *)
(*   core/base_agent.py   BaseAgent.run (the unit-of-work wrapper)         *)
(*   workflows/manager.py _WorkflowStub, _wrap_with_retry, WorkflowManager *)
(* A WorkflowManager is constructed from the declared agent classes, a     *)
(* dependency mapping and a retry budget, and then run once.               *)
(***************************************************************************)
EXTENDS Integers, Sequences, FiniteSets, TLC

\* ------------------------------------------------------------------------
\* Bounds of the model
\* ------------------------------------------------------------------------
\* largest number of prerequisite names in the whole dependency mapping
MaxEdges == 2
\* largest number of entries of the dependency mapping
MaxDepKeys == 2
\* largest number of prerequisite names of a mapping compiled on its own
MaxCompileEdges == 3
\* largest number of entries of a mapping compiled on its own
MaxCompileKeys == 3
\* largest max_retries handed to the constructor
MaxRetriesBound == 3
\* largest number of processes start() spawns in one behaviour
MaxStarts == 2
\* largest number of response lines the listeners read in one behaviour
MaxResponses == 2
\* largest topic_count the topic-generation unit is configured with
MaxTopicCount == 5
\* largest max_retries of the workflow that runs the topic-generation unit
MaxTopicRetries == 2

\* ------------------------------------------------------------------------
\* Inputs of the constructor
\* ------------------------------------------------------------------------
\* agent_classes, in declaration order (class names, as in test_dependency_order)
AgentClasses == <<"AgentA", "AgentB", "AgentC">>

\* a name that no declared class has
UndeclaredName == "AgentX"

RangeOf(s) == {s[i] : i \in 1..Len(s)}

Contains(s, x) == \E i \in 1..Len(s) : s[i] = x

\* every name a dependency mapping of the model can mention
Names == RangeOf(AgentClasses) \cup {UndeclaredName}

\* the keys of a dependency mapping: a dict has distinct keys, in insertion order
KeyLists ==
  {ks \in UNION {[1..n -> Names] : n \in 0..MaxDepKeys} :
     \A i, j \in 1..Len(ks) : i # j => ks[i] # ks[j]}

RECURSIVE SumTo(_, _)
SumTo(f, n) == IF n = 0 THEN 0 ELSE f[n] + SumTo(f, n - 1)

\* the lengths of the prerequisite lists of n entries
LenVectors(n) == {lv \in [1..n -> 0..MaxEdges] : SumTo(lv, n) <= MaxEdges}

\* the mapping with keys ks whose prerequisite lists (Sequence[str], duplicates
\* allowed) have the lengths lv and, laid end to end, the names flat
MakeDeps(ks, lv, flat) ==
  [i \in 1..Len(ks) |->
     [agent_name |-> ks[i],
      dep_list |-> SubSeq(flat, SumTo(lv, i - 1) + 1, SumTo(lv, i))]]

\* the dependency mappings handed to the constructor
DepMaps ==
  UNION {UNION {{MakeDeps(ks, lv, flat) : flat \in [1..SumTo(lv, Len(ks)) -> Names]} :
                  lv \in LenVectors(Len(ks))} :
           ks \in KeyLists}

RetryBudgets == 0..MaxRetriesBound

\* ------------------------------------------------------------------------
\* WorkflowManager.__init__ : the agents and the resolved dependency map
\* ------------------------------------------------------------------------
\* self._agents: one instance per class, keyed by class name, in declaration order
AgentNames == RangeOf(AgentClasses)

\* variant of CheckItem: only the keys of the mapping are checked
CheckItemKeysOnly(item) ==
  IF item.agent_name \notin AgentNames THEN "Unknown agent in dependencies"
  ELSE "ok"

\* the check of one (agent_name, dep_list) entry; "ok" or the ValueError raised
CheckItem(item) ==
  IF item.agent_name \notin AgentNames THEN "Unknown agent in dependencies"
  ELSE IF \E i \in 1..Len(item.dep_list) : item.dep_list[i] \notin AgentNames
       THEN "Unknown dependency"
       ELSE "ok"

\* the loop over dependencies.items(): the first entry that fails raises
RECURSIVE ResolveDeps(_, _)
ResolveDeps(dependencies, k) ==
  IF k > Len(dependencies) THEN "ok"
  ELSE IF CheckItem(dependencies[k]) # "ok" THEN CheckItem(dependencies[k])
       ELSE ResolveDeps(dependencies, k + 1)

\* ------------------------------------------------------------------------
\* Workflow nodes (BaseAgent instances): leaves and _WorkflowStub composites
\* ------------------------------------------------------------------------
\* a concrete agent; cls is self.__class__.__name__
UnitAgent(name) ==
  [cls |-> name, name |-> name, max_iterations |-> 0, sub_agents |-> <<>>]

\* _WorkflowStub.__init__: max_iterations defaults to 1
WorkflowStub(cls, name, sub_agents, max_iterations) ==
  [cls |-> cls, name |-> name, max_iterations |-> max_iterations,
   sub_agents |-> sub_agents]

IsUnit(agent) == agent.cls \in AgentNames

\* variant of WrapWithRetry: max_retries counted as retries after a first attempt
WrapWithRetryExtra(agent, max_retries) ==
  IF max_retries <= 1 THEN agent
  ELSE WorkflowStub("LoopAgent", agent.cls \o "Retry", <<agent>>, max_retries + 1)

\* _wrap_with_retry
WrapWithRetry(agent, max_retries) ==
  IF max_retries <= 1 THEN agent
  ELSE WorkflowStub("LoopAgent", agent.cls \o "Retry", <<agent>>, max_retries)

\* ------------------------------------------------------------------------
\* WorkflowManager._build_workflow : Kahn layering
\* ------------------------------------------------------------------------
\* the prerequisite list stored for a name (empty when the name is no key)
DepsOf(deps, name) ==
  IF \E i \in 1..Len(deps) : deps[i].agent_name = name
  THEN deps[CHOOSE i \in 1..Len(deps) : deps[i].agent_name = name].dep_list
  ELSE <<>>

\* indegree after the two initialisation loops: len(deps) for every key
InitialIndegree(deps) == [n \in AgentNames |-> Len(DepsOf(deps, n))]

\* deque([n for n, deg in indegree.items() if deg == 0]), in declaration order
InitialQueue(indegree) ==
  SelectSeq(AgentClasses, LAMBDA n : indegree[n] = 0)

\* for child, deps in self._deps.items(): if node in deps: decrement, enqueue at 0
RECURSIVE ReduceChildren(_, _, _, _, _)
ReduceChildren(node, deps, k, indegree, queue) ==
  IF k > Len(deps) THEN [indegree |-> indegree, queue |-> queue]
  ELSE LET child == deps[k].agent_name
           hit   == Contains(deps[k].dep_list, node)
           ind2  == IF hit THEN [indegree EXCEPT ![child] = @ - 1] ELSE indegree
           q2    == IF hit /\ ind2[child] = 0 THEN Append(queue, child) ELSE queue
       IN  ReduceChildren(node, deps, k + 1, ind2, q2)

\* variant of DrainLevel: the queue is drained until it is empty, the nodes
\* enqueued on the way included, whatever level_size says
RECURSIVE DrainLevelWholeQueue(_, _, _, _, _)
DrainLevelWholeQueue(deps, level_size, indegree, queue, current_layer) ==
  IF queue = <<>>
  THEN [indegree |-> indegree, queue |-> queue, current_layer |-> current_layer]
  ELSE LET node == Head(queue)
           r    == ReduceChildren(node, deps, 1, indegree, Tail(queue))
       IN  DrainLevelWholeQueue(deps, level_size - 1, r.indegree, r.queue,
                                Append(current_layer, node))

\* for _ in range(level_size): popleft, append to current_layer, reduce children
RECURSIVE DrainLevel(_, _, _, _, _)
DrainLevel(deps, level_size, indegree, queue, current_layer) ==
  IF level_size = 0
  THEN [indegree |-> indegree, queue |-> queue, current_layer |-> current_layer]
  ELSE LET node == Head(queue)
           r    == ReduceChildren(node, deps, 1, indegree, Tail(queue))
       IN  DrainLevel(deps, level_size - 1, r.indegree, r.queue,
                      Append(current_layer, node))

\* while queue: one generation per layer
RECURSIVE KahnLoop(_, _, _, _)
KahnLoop(deps, indegree, queue, layers) ==
  IF queue = <<>> THEN layers
  ELSE LET r == DrainLevel(deps, Len(queue), indegree, queue, <<>>)
       IN  KahnLoop(deps, r.indegree, r.queue, Append(layers, r.current_layer))

ComputeLayers(deps) ==
  KahnLoop(deps, InitialIndegree(deps), InitialQueue(InitialIndegree(deps)), <<>>)

RECURSIVE SumLen(_)
SumLen(layers) ==
  IF layers = <<>> THEN 0 ELSE Len(Head(layers)) + SumLen(Tail(layers))

\* one pipeline block per layer: the wrapped agent itself, or a ParallelAgent
LayerBlock(i, layer, max_retries) ==
  LET sub_agents == [k \in 1..Len(layer) |->
                        WrapWithRetry(UnitAgent(layer[k]), max_retries)]
  IN  IF Len(sub_agents) = 1 THEN sub_agents[1]
      ELSE WorkflowStub("ParallelAgent", "ParallelLayer", sub_agents, 1)

\* variant of CoversAllAgents: only an excess of placed nodes is an error
CoversAtMostAllAgents(layers) == SumLen(layers) <= Len(AgentClasses)

\* sum(len(l) for l in layers) == len(self._agents)
CoversAllAgents(layers) == SumLen(layers) = Len(AgentClasses)

\* variant of LegacyBlocks: the legacy order without the retry wrapper
LegacyBlocksUnwrapped(max_retries) ==
  [k \in 1..Len(AgentClasses) |-> UnitAgent(AgentClasses[k])]

\* the legacy branch: every agent wrapped, in the order of self._agents
LegacyBlocks(max_retries) ==
  [k \in 1..Len(AgentClasses) |->
     WrapWithRetry(UnitAgent(AgentClasses[k]), max_retries)]

\* variant of PipelineBlocks: each block inserted at the front of the list
PipelineBlocksReversed(lyrs, max_retries) ==
  [i \in 1..Len(lyrs) |-> LayerBlock(i, lyrs[Len(lyrs) + 1 - i], max_retries)]

\* pipeline_blocks: one block per layer, in layer order
PipelineBlocks(lyrs, max_retries) ==
  [i \in 1..Len(lyrs) |-> LayerBlock(i, lyrs[i], max_retries)]

NoAgent == UnitAgent("none")

\* _build_workflow: [error, layers, root]
BuildWorkflow(deps, max_retries) ==
  IF deps = <<>>
  THEN [error |-> "ok", layers |-> <<>>,
        root |-> WorkflowStub("SequentialAgent", "SequentialPipeline",
                              LegacyBlocks(max_retries), 1)]
  ELSE LET lyrs == ComputeLayers(deps) IN
       IF ~CoversAllAgents(lyrs)
       THEN [error |-> "Dependency graph contains a cycle", layers |-> <<>>,
             root |-> NoAgent]
       ELSE [error |-> "ok", layers |-> lyrs,
             root |-> WorkflowStub("SequentialAgent", "WorkflowPipeline",
                                   PipelineBlocks(lyrs, max_retries), 1)]

\* ------------------------------------------------------------------------
\* PipelineState.metadata : a dict; "errors" and "events" are lists when present
\* ------------------------------------------------------------------------
EmptyDict == [k \in {} |-> <<>>]

\* metadata.get(key, [])
MetaGet(metadata, key) == IF key \in DOMAIN metadata THEN metadata[key] ELSE <<>>

\* metadata.setdefault(key, []).append(value)
SetDefaultAppend(metadata, key, value) ==
  IF key \in DOMAIN metadata
  THEN [metadata EXCEPT ![key] = Append(@, value)]
  ELSE metadata @@ (key :> <<value>>)

\* PipelineState(): only the metadata field takes part in the orchestration
NewPipelineState == [metadata |-> EmptyDict]

\* len(state.metadata.get("errors", []))
ErrorCount(st) == Len(MetaGet(st.metadata, "errors"))

\* variant of RecordError: the errors list is replaced by the new record
RecordErrorReplacing(st, cls, message) ==
  [st EXCEPT !.metadata =
     [k \in (DOMAIN @) \cup {"errors"} |->
        IF k = "errors" THEN <<[agent |-> cls, error |-> message]>> ELSE @[k]]]

\* the except branch of BaseAgent.run: record the failure in the state it was given
RecordError(st, cls, message) ==
  [st EXCEPT !.metadata =
     SetDefaultAppend(@, "errors", [agent |-> cls, error |-> message])]

\* RecordingAgent._execute up to its raise/return: append record_key to events
RecordEvent(st, record_key) ==
  [st EXCEPT !.metadata = SetDefaultAppend(@, "events", record_key)]

\* ------------------------------------------------------------------------
\* State of the program
\* ------------------------------------------------------------------------
VARIABLES
  dependencies,   \* constructor argument (None and {} are both the empty map)
  max_retries,    \* constructor argument
  phase,          \* "new", "rejected", "built", "running", "done"
  ctor_error,     \* the ValueError of the constructor, "ok" when none
  layers,         \* layers computed by _build_workflow
  root_agent,     \* self._root_agent
  state,          \* the PipelineState threaded through the run
  stack,          \* call stack of BaseAgent.run frames, innermost last
  log,            \* logger records of BaseAgent.run, in order
  calls,          \* per unit, the outcome of each _execute call so far
  crashed         \* run() took its "Critical failure" branch

\* the state of the tool-call gateway (core/mcp_manager.py) and of its threads
VARIABLES
  bin_path_exists, \* self._bin_path.exists()
  proc,            \* self._proc: 0 for None, else the number of Popen objects made
  proc_status,     \* self._proc.poll(): "none", "running", or its exit code:
                   \* "exited" on its own, "stopped" when stop() ended it
  stdin,           \* the request lines written to the processes so far
  listener,        \* the _listen_stdout thread of self._proc
  stale_listeners, \* threads of earlier processes still in their read loop
  responses_read,  \* number of response lines the listeners have read so far
  next_id,         \* self._next_id
  responses,       \* self._responses
  mgr_pc,          \* the thread that calls start() and stop()
  start_result,    \* how the last start() ended
  call             \* per calling thread, its position in call_tool and its locals

workflow_vars == <<dependencies, max_retries, phase, ctor_error, layers,
                   root_agent, state, stack, log, calls, crashed>>

gateway_vars == <<bin_path_exists, proc, proc_status, stdin, listener,
                  stale_listeners, responses_read, next_id, responses, mgr_pc,
                  start_result, call>>

\* the topic-generation unit (agents/topic_generation_agent.py) and its run
VARIABLES
  topic_count,       \* self.topic_count
  notion_db_id,      \* self.notion_db_id: "None" or a database id
  tg_max_retries,    \* max_retries of the workflow the unit runs in
  tg_state,          \* the PipelineState the unit is run on
  tg_pc,             \* position of the run: "new", "gather", "ideation",
                     \* "scoring", "push", "again" (next attempt), "done"
  tg_iteration,      \* the attempt of the unit that is being made
  producer,          \* per producer, the state of its limited(...) task
  rate_sem,          \* self._rate_sem: the free slots of the semaphore
  ideation_request,  \* keyword arguments of ideation_agent.run_async
  scoring_request,   \* keyword arguments of scoring_agent.run_async
  scored,            \* the value scoring_agent.run_async returned
  push               \* the forward to the sink: "none", "ok" or "failed"

topic_vars == <<topic_count, notion_db_id, tg_max_retries, tg_state, tg_pc,
                tg_iteration, producer, rate_sem, ideation_request,
                scoring_request, scored, push>>

vars == <<workflow_vars, gateway_vars, topic_vars>>

StubClasses == {"SequentialAgent", "ParallelAgent", "LoopAgent"}

\* variant of CatchesException: only the composites run under the try/except
CatchesExceptionStubsOnly(agent) == agent.cls \in StubClasses

\* every node's run is BaseAgent.run, whose try/except catches Exception
CatchesException(agent) == IsUnit(agent) \/ agent.cls \in StubClasses

\* variant of Frame: the error count is compared with zero, not with the count
\* found when the iteration began
FrameNoSnapshot(agent, st) ==
  [agent |-> agent, iteration |-> 1, idx |-> 1, prev_error_count |-> 0]

\* a frame of BaseAgent.run; for a composite, the locals of _WorkflowStub._execute
Frame(agent, st) ==
  [agent |-> agent, iteration |-> 1, idx |-> 1,
   prev_error_count |-> ErrorCount(st)]

LogRecord(event, cls) == [event |-> event, agent |-> cls]

Top == stack[Len(stack)]

\* the callee returned: drop its frame, the caller moves to its next sub-agent
ReturnTo(stk, h) ==
  IF h = 0 THEN <<>>
  ELSE [SubSeq(stk, 1, h) EXCEPT ![h].idx = @ + 1]

\* ------------------------------------------------------------------------
\* Tool-call gateway: the state MCPManager.__init__ builds
\* ------------------------------------------------------------------------
\* the threads that call call_tool, one call each, in the order they call
Callers == <<"t1", "t2">>

\* the locals of a thread that has not called call_tool yet
NewCall ==
  [pc |-> "idle", req_id |-> 0, notified |-> FALSE, expired |-> FALSE,
   answered |-> "no", status |-> "none", exc |-> "", message |-> "",
   value |-> 0]

\* MCPManager.__init__: no process, ids from 1, an empty response map
MCPManagerNew ==
  /\ proc = 0
  /\ proc_status = "none"
  /\ stdin = {}
  /\ listener = "none"
  /\ stale_listeners = 0
  /\ responses_read = 0
  /\ next_id = 1
  /\ responses = EmptyDict
  /\ mgr_pc = "idle"
  /\ start_result = "none"
  /\ call = [c \in RangeOf(Callers) |-> NewCall]

\* ------------------------------------------------------------------------
\* Topic-generation unit: the state TopicGenerationAgent.__init__ builds
\* ------------------------------------------------------------------------
\* asyncio.Semaphore(3)
RateLimit == 3

\* the three producers, in the order gather is given their tasks
Producers == <<"TrendAnalysisAgent", "CompetitorResearchAgent",
               "KeywordResearchAgent">>

\* no call of a sub-agent has been made
NoRequest == [made |-> FALSE, count |-> 0, top_n |-> 0, ideas |-> <<>>,
              context |-> <<>>]

\* a Python value: its type and its content
PyValue(type, v) == [type |-> type, v |-> v]

PyNone == PyValue("NoneType", 0)

\* TopicGenerationAgent(topic_count = n, notion_db_id = db), not yet run
TopicAgentNew(n, db) ==
  /\ topic_count = n
  /\ notion_db_id = db
  /\ tg_state = NewPipelineState
  /\ tg_pc = "new"
  /\ tg_iteration = 1
  /\ producer = [p \in RangeOf(Producers) |-> "none"]
  /\ rate_sem = RateLimit
  /\ ideation_request = NoRequest
  /\ scoring_request = NoRequest
  /\ scored = PyNone
  /\ push = "none"

\* the topic-generation unit takes no part in the behaviours of the others
TopicIdle == tg_max_retries = 0 /\ TopicAgentNew(0, "None")

Init ==
  /\ dependencies \in DepMaps
  /\ max_retries \in RetryBudgets
  /\ phase = "new"
  /\ ctor_error = "ok"
  /\ layers = <<>>
  /\ root_agent = NoAgent
  /\ state = NewPipelineState
  /\ stack = <<>>
  /\ log = <<>>
  /\ calls = [n \in AgentNames |-> <<>>]
  /\ crashed = FALSE
  /\ bin_path_exists = TRUE
  /\ MCPManagerNew
  /\ TopicIdle

\* WorkflowManager.__init__
Construct ==
  /\ phase = "new"
  /\ LET resolved == ResolveDeps(dependencies, 1) IN
     IF resolved # "ok"
     THEN /\ phase' = "rejected"
          /\ ctor_error' = resolved
          /\ UNCHANGED <<layers, root_agent>>
     ELSE LET built == BuildWorkflow(dependencies, max_retries) IN
          /\ phase' = IF built.error = "ok" THEN "built" ELSE "rejected"
          /\ ctor_error' = built.error
          /\ layers' = built.layers
          /\ root_agent' = built.root
  /\ UNCHANGED <<dependencies, max_retries, state, stack, log, calls, crashed>>
  /\ UNCHANGED <<gateway_vars, topic_vars>>

\* WorkflowManager.run up to the call of self._root_agent.run(state)
RunStart ==
  /\ phase = "built"
  /\ phase' = "running"
  /\ state' = NewPipelineState
  /\ stack' = <<Frame(root_agent, NewPipelineState)>>
  /\ log' = Append(log, LogRecord("Starting", root_agent.cls))
  /\ UNCHANGED <<dependencies, max_retries, ctor_error, layers, root_agent,
                 calls, crashed>>
  /\ UNCHANGED <<gateway_vars, topic_vars>>

\* variant of HasNextSubAgent: the iteration is abandoned at the first new error
HasNextSubAgentUntilError(frame, st) ==
  /\ frame.idx <= Len(frame.agent.sub_agents)
  /\ ErrorCount(st) = frame.prev_error_count

\* for agent in self.sub_agents: a sub-agent of this iteration is still to run
HasNextSubAgent(frame, st) == frame.idx <= Len(frame.agent.sub_agents)

\* variant of LoopContinues: a fixed number of iterations, no early break
LoopContinuesFixed(frame, st) ==
  frame.iteration < frame.agent.max_iterations

\* the for/break of _WorkflowStub._execute: another iteration follows iff the
\* one just made added errors and iterations remain
LoopContinues(frame, st) ==
  /\ ErrorCount(st) # frame.prev_error_count
  /\ frame.iteration < frame.agent.max_iterations

\* _WorkflowStub._execute: state = agent.run(state) for the next sub-agent
CallSubAgent ==
  /\ phase = "running"
  /\ stack # <<>>
  /\ ~IsUnit(Top.agent)
  /\ HasNextSubAgent(Top, state)
  /\ LET agent == Top.agent.sub_agents[Top.idx] IN
     /\ stack' = Append(stack, Frame(agent, state))
     /\ log' = Append(log, LogRecord("Starting", agent.cls))
  /\ UNCHANGED <<dependencies, max_retries, phase, ctor_error, layers,
                 root_agent, state, calls, crashed>>
  /\ UNCHANGED <<gateway_vars, topic_vars>>

\* a unit's _execute returns: BaseAgent.run logs success and returns new_state
ExecuteReturn ==
  /\ phase = "running"
  /\ stack # <<>>
  /\ IsUnit(Top.agent)
  /\ state' = RecordEvent(state, Top.agent.name)
  /\ log' = Append(log, LogRecord("Finished", Top.agent.cls))
  /\ calls' = [calls EXCEPT ![Top.agent.name] = Append(@, "returned")]
  /\ stack' = ReturnTo(stack, Len(stack) - 1)
  /\ UNCHANGED <<dependencies, max_retries, phase, ctor_error, layers,
                 root_agent, crashed>>
  /\ UNCHANGED <<gateway_vars, topic_vars>>

\* the innermost frame whose BaseAgent.run catches the exception, 0 if none
RECURSIVE Handler(_, _)
Handler(stk, h) ==
  IF h = 0 THEN 0
  ELSE IF CatchesException(stk[h].agent) THEN h ELSE Handler(stk, h - 1)

\* a unit's _execute raises: the exception unwinds to the innermost except
\* clause, which logs it, records it in the state and returns the state
ExecuteRaise ==
  /\ phase = "running"
  /\ stack # <<>>
  /\ IsUnit(Top.agent)
  /\ LET unit    == Top.agent.name
         message == Len(calls[unit]) + 1
         mutated == RecordEvent(state, unit)
         h       == Handler(stack, Len(stack))
     IN
     /\ calls' = [calls EXCEPT ![unit] = Append(@, "raised")]
     /\ IF h > 0
        THEN /\ state' = RecordError(mutated, stack[h].agent.cls, message)
             /\ log' = Append(log, LogRecord("Error", stack[h].agent.cls))
             /\ stack' = ReturnTo(stack, h - 1)
             /\ phase' = IF h = 1 THEN "done" ELSE phase
             /\ UNCHANGED crashed
        ELSE \* the except branch of WorkflowManager.run
             /\ state' = RecordError(mutated, "WorkflowManager", message)
             /\ log' = Append(log, LogRecord("Critical", "WorkflowManager"))
             /\ stack' = <<>>
             /\ phase' = "done"
             /\ crashed' = TRUE
  /\ UNCHANGED <<dependencies, max_retries, ctor_error, layers, root_agent>>
  /\ UNCHANGED <<gateway_vars, topic_vars>>

\* _WorkflowStub._execute after the inner for loop: break on an unchanged error
\* count, otherwise iterate again while iterations remain; then return state
EndIteration ==
  /\ phase = "running"
  /\ stack # <<>>
  /\ ~IsUnit(Top.agent)
  /\ ~HasNextSubAgent(Top, state)
  /\ IF LoopContinues(Top, state)
     THEN /\ stack' = [stack EXCEPT ![Len(stack)] =
                         [@ EXCEPT !.iteration = @ + 1, !.idx = 1,
                                   !.prev_error_count = ErrorCount(state)]]
          /\ UNCHANGED <<log, phase>>
     ELSE /\ stack' = ReturnTo(stack, Len(stack) - 1)
          /\ log' = Append(log, LogRecord("Finished", Top.agent.cls))
          /\ phase' = IF Len(stack) = 1 THEN "done" ELSE phase
  /\ UNCHANGED <<dependencies, max_retries, ctor_error, layers, root_agent,
                 state, calls, crashed>>
  /\ UNCHANGED <<gateway_vars, topic_vars>>

Next ==
  \/ Construct
  \/ RunStart
  \/ CallSubAgent
  \/ ExecuteReturn
  \/ ExecuteRaise
  \/ EndIteration

Spec == Init /\ [][Next]_vars

\* a step of the thread that executes WorkflowManager.run
RunStep == CallSubAgent \/ ExecuteReturn \/ ExecuteRaise \/ EndIteration

\* once run() has been called, its thread is never suspended for ever
FairSpec == Spec /\ WF_vars(RunStep)

\* ------------------------------------------------------------------------
\* The constructor alone, on larger mappings over the declared agents
\* ------------------------------------------------------------------------
\* the keys of a mapping over the declared agents
CompileKeyLists ==
  {ks \in UNION {[1..n -> AgentNames] : n \in 0..MaxCompileKeys} :
     \A i, j \in 1..Len(ks) : i # j => ks[i] # ks[j]}

\* the lengths of the prerequisite lists of n entries
CompileLenVectors(n) ==
  {lv \in [1..n -> 0..MaxCompileEdges] : SumTo(lv, n) <= MaxCompileEdges}

\* the mappings over the declared agents (duplicates and cycles included)
CompileMaps ==
  UNION {UNION {{MakeDeps(ks, lv, flat) :
                   flat \in [1..SumTo(lv, Len(ks)) -> AgentNames]} :
                  lv \in CompileLenVectors(Len(ks))} :
           ks \in CompileKeyLists}

CompileInit ==
  /\ dependencies \in CompileMaps
  /\ max_retries \in RetryBudgets
  /\ phase = "new"
  /\ ctor_error = "ok"
  /\ layers = <<>>
  /\ root_agent = NoAgent
  /\ state = NewPipelineState
  /\ stack = <<>>
  /\ log = <<>>
  /\ calls = [n \in AgentNames |-> <<>>]
  /\ crashed = FALSE
  /\ bin_path_exists = TRUE
  /\ MCPManagerNew
  /\ TopicIdle

CompileNext == Construct

CompileSpec == CompileInit /\ [][CompileNext]_vars

\* ------------------------------------------------------------------------
\* Vocabulary of the properties
\* ------------------------------------------------------------------------
\* the prerequisites the dependency mapping gives a name
Prereqs(deps, u) == RangeOf(DepsOf(deps, u))

\* every name the mapping mentions is a declared agent
DeclaredOnly(deps) ==
  \A i \in 1..Len(deps) :
    /\ deps[i].agent_name \in AgentNames
    /\ RangeOf(deps[i].dep_list) \subseteq AgentNames

\* the names reachable from the set S along at most n prerequisite edges
RECURSIVE Ancestors(_, _, _)
Ancestors(deps, S, n) ==
  IF n = 0 THEN S
  ELSE Ancestors(deps, S \cup UNION {Prereqs(deps, x) : x \in S}, n - 1)

\* some name is its own (transitive) prerequisite
HasCycle(deps) ==
  \E u \in Names : u \in Ancestors(deps, Prereqs(deps, u), Cardinality(Names))

\* the unit a leaf or a retry wrapper stands for
UnitNameOf(agent) == IF IsUnit(agent) THEN agent.name ELSE agent.sub_agents[1].name

\* the units of one block of the compiled plan, in execution order
BlockUnits(block) ==
  IF block.cls = "ParallelAgent"
  THEN [k \in 1..Len(block.sub_agents) |-> UnitNameOf(block.sub_agents[k])]
  ELSE <<UnitNameOf(block)>>

\* the places (layer index, position) the compiled plan gives a unit
PlacesOf(u) ==
  {<<i, k>> \in (1..Len(root_agent.sub_agents)) \X (1..Len(AgentClasses)) :
     /\ k <= Len(BlockUnits(root_agent.sub_agents[i]))
     /\ BlockUnits(root_agent.sub_agents[i])[k] = u}

LayerIndex(u) == (CHOOSE pl \in PlacesOf(u) : TRUE)[1]

Constructed == phase \in {"built", "running", "done"}

NothingRan == log = <<>> /\ stack = <<>> /\ \A u \in AgentNames : calls[u] = <<>>

NoSchedule == root_agent = NoAgent /\ layers = <<>>

\* number of calls of a unit's _execute so far
Invocations(u) ==
  Cardinality({i \in 1..Len(log) : log[i] = LogRecord("Starting", u)})

Errors == MetaGet(state.metadata, "errors")

\* number of records of metadata.errors that name cls
ErrorsNaming(cls) == Cardinality({i \in 1..Len(Errors) : Errors[i].agent = cls})

\* ------------------------------------------------------------------------
\* Properties
\* ------------------------------------------------------------------------
\* C1: every acyclic dependency mapping over the declared units is accepted by
\* the constructor, and the compiled plan places every unit in exactly one
\* layer, each prerequisite in a strictly earlier layer than its dependent.
C1_AcyclicMapCompiles ==
  (phase # "new" /\ DeclaredOnly(dependencies) /\ ~HasCycle(dependencies)) =>
     /\ Constructed
     /\ \A u \in AgentNames : Cardinality(PlacesOf(u)) = 1
     /\ \A u \in AgentNames : \A d \in Prereqs(dependencies, u) :
          LayerIndex(d) < LayerIndex(u)

\* C3: a dependency mapping with a cycle (a self-loop included) is rejected by
\* the constructor, and no unit is invoked then or later.
C3_CycleRejected ==
  (phase # "new" /\ HasCycle(dependencies)) =>
     (phase = "rejected" /\ ctor_error # "ok" /\ NothingRan)

C3_Witness ==
  /\ phase = "rejected"
  /\ DeclaredOnly(dependencies)
  /\ HasCycle(dependencies)
  /\ ctor_error = "Dependency graph contains a cycle"

\* C4: a dependency mapping that names an undeclared unit, as a key or as a
\* prerequisite, is rejected by the constructor's own name check: no unit is
\* invoked and no schedule is produced.
C4_UnknownNameRejected ==
  (phase # "new" /\ ~DeclaredOnly(dependencies)) =>
     /\ phase = "rejected"
     /\ ctor_error \in {"Unknown agent in dependencies", "Unknown dependency"}
     /\ NothingRan
     /\ NoSchedule

C4_Witness ==
  /\ phase = "rejected"
  /\ ctor_error = "Unknown dependency"
  /\ \A i \in 1..Len(dependencies) : dependencies[i].agent_name \in AgentNames
  /\ NothingRan

\* ------------------------------------------------------------------------
\* Vocabulary of the run properties
\* ------------------------------------------------------------------------
Starting(u) == LogRecord("Starting", u)

\* BaseAgent.run of u has ended: it logged success or the caught exception
Ended(rec, u) == rec.agent = u /\ rec.event \in {"Finished", "Error"}

\* number of log records among the first n that satisfy Test
StartsBefore(u, n) == Cardinality({j \in 1..n : log[j] = Starting(u)})

EndsBefore(u, n) == Cardinality({j \in 1..n : Ended(log[j], u)})

\* whenever u starts, d has run, all its invocations are over, and none follows
RunsWhollyBefore(d, u) ==
  \A i \in 1..Len(log) :
    log[i] = Starting(u) =>
      /\ StartsBefore(d, i - 1) >= 1
      /\ StartsBefore(d, i - 1) = EndsBefore(d, i - 1)
      /\ \A j \in i..Len(log) : log[j].agent # d

Raised(u) == Cardinality({i \in 1..Len(calls[u]) : calls[u][i] = "raised"})

AlwaysRaised(u) == \A i \in 1..Len(calls[u]) : calls[u][i] = "raised"

Events == MetaGet(state.metadata, "events")

\* the mapping of test_dependency_order
ChainABC ==
  <<[agent_name |-> "AgentB", dep_list |-> <<"AgentA">>],
    [agent_name |-> "AgentC", dep_list |-> <<"AgentB">>]>>

\* the number of attempts a unit is allowed
Budget == IF max_retries <= 1 THEN 1 ELSE max_retries

\* C2: in a run of a compiled graph every invocation of a prerequisite, retries
\* included, is over before its dependent is first invoked; the chain
\* A -> B -> C records exactly [A, B, C] when no unit fails.
C2_PrerequisitesRunFirst ==
  Constructed =>
    /\ \A u \in AgentNames : \A d \in Prereqs(dependencies, u) :
         RunsWhollyBefore(d, u)
    /\ (/\ dependencies = ChainABC
        /\ phase = "done"
        /\ \A u \in AgentNames : Raised(u) = 0)
         => Events = <<"AgentA", "AgentB", "AgentC">>

C2_Witness ==
  /\ phase = "done"
  /\ dependencies = ChainABC
  /\ \A u \in AgentNames : Raised(u) = 0
  /\ Events = <<"AgentA", "AgentB", "AgentC">>

\* C5: with a retry budget N >= 1, a unit that fails on every attempt has been
\* invoked exactly N times when the run ends, and metadata.errors holds exactly
\* N records naming it.
C5_AlwaysFailingUsesBudget ==
  \A u \in AgentNames :
    (phase = "done" /\ max_retries >= 1 /\ AlwaysRaised(u)) =>
      /\ Invocations(u) = max_retries
      /\ Len(calls[u]) = max_retries
      /\ ErrorsNaming(u) = max_retries

C5_Witness ==
  /\ phase = "done"
  /\ max_retries = 3
  /\ calls["AgentA"] = <<"raised", "raised", "raised">>
  /\ ErrorsNaming("AgentA") = 3

\* C6: with a retry budget N >= 2, a unit that fails on its first invocation
\* is invoked again, and if that second invocation succeeds the unit has been
\* invoked exactly twice when the run ends and exactly one error record (the
\* one of the first attempt) names it.
C6_FailOnceThenSucceed ==
  \A u \in AgentNames :
    (/\ phase = "done"
     /\ max_retries >= 2
     /\ Len(calls[u]) >= 1
     /\ calls[u][1] = "raised") =>
       /\ Len(calls[u]) >= 2
       /\ calls[u][2] = "returned" =>
            /\ Len(calls[u]) = 2
            /\ Invocations(u) = 2
            /\ ErrorsNaming(u) = 1
            /\ \E i \in 1..Len(Errors) : Errors[i] = [agent |-> u, error |-> 1]

C6_Witness ==
  /\ phase = "done"
  /\ max_retries = 3
  /\ calls["AgentB"] = <<"raised", "returned">>
  /\ ErrorsNaming("AgentB") = 1

\* C7: a run of a constructed workflow, once started, ends whatever units fail, and returns
\* the state without having raised: the failures are the records of
\* metadata.errors, one per failed invocation, each naming its unit.
C7_RunReturnsState ==
  /\ [](phase = "done" =>
          /\ ~crashed
          /\ stack = <<>>
          /\ \A u \in AgentNames : ErrorsNaming(u) = Raised(u)
          /\ \A i \in 1..Len(Errors) : Errors[i].agent \in AgentNames)
  /\ (phase = "running" ~> phase = "done")

C7_Witness ==
  /\ phase = "done"
  /\ ~crashed
  /\ \E u \in AgentNames : Raised(u) >= 2 /\ AlwaysRaised(u)
  /\ \E u \in AgentNames : Raised(u) = 1 /\ Len(calls[u]) = 2

\* C8: in a run of a constructed workflow every declared unit is eventually
\* invoked, also when its prerequisites failed on every attempt.
C8_EveryUnitInvoked ==
  (phase = "running") ~> (\A u \in AgentNames : Invocations(u) >= 1)

C8_Witness ==
  /\ phase = "done"
  /\ max_retries >= 2
  /\ "AgentA" \in Prereqs(dependencies, "AgentB")
  /\ AlwaysRaised("AgentA")
  /\ Raised("AgentA") = max_retries
  /\ Invocations("AgentB") >= 1

IsPrefix(s, t) == Len(s) <= Len(t) /\ \A i \in 1..Len(s) : s[i] = t[i]

\* C9: metadata.errors is append-only within a run: every step keeps the
\* records already there, at their positions.
C9_ErrorsAppendOnly ==
  [][IsPrefix(Errors, Errors')]_vars

C9_Witness ==
  /\ phase = "done"
  /\ calls["AgentA"] = <<"raised", "returned">>
  /\ Len(Errors) >= 2
  /\ Errors[1] = [agent |-> "AgentA", error |-> 1]

\* C10: with an absent or empty dependency mapping the units run strictly in
\* declaration order, each with all its attempts before the next one starts,
\* and each unit has the retry budget.
C10_EmptyMapRunsInOrder ==
  (dependencies = <<>> /\ phase # "new") =>
    /\ Constructed
    /\ \A i, j \in 1..Len(AgentClasses) :
         i < j => RunsWhollyBefore(AgentClasses[i], AgentClasses[j])
    /\ \A u \in AgentNames :
         /\ Len(calls[u]) <= Budget
         /\ \A k \in 1..(Len(calls[u]) - 1) : calls[u][k] = "raised"
         /\ (phase = "done" /\ AlwaysRaised(u)) => Len(calls[u]) = Budget

C10_Witness ==
  /\ dependencies = <<>>
  /\ phase = "done"
  /\ max_retries = 2
  /\ calls["AgentB"] = <<"raised", "raised">>
  /\ Events = <<"AgentA", "AgentB", "AgentB", "AgentC">>

\* ------------------------------------------------------------------------
\* Tool-call gateway: the child process and the lines of its stdout
\* ------------------------------------------------------------------------
\* the correlation ids a response line can carry: those the calls can be given
ResponseIds == 1..Len(Callers)

\* a response object {"id": id, field: payload}; the payload names the request
Response(id, field) ==
  [parse |-> "object", msg |-> (("id" :> id) @@ (field :> id))]

\* a notification: a JSON object without "id"
Notification == [parse |-> "object", msg |-> ("method" :> 0)]

\* plain log text: json.loads raises JSONDecodeError
LogText == [parse |-> "invalid", msg |-> EmptyDict]

\* valid JSON that is no container (a number, true, null)
JsonScalar == [parse |-> "scalar", msg |-> EmptyDict]

\* the lines readline can return: whatever the child wrote while it ran
ProcessLines ==
  {Response(i, f) : i \in ResponseIds, f \in {"result", "error"}}
    \cup {Notification, LogText, JsonScalar}

\* the child exits on its own; its stdout reaches end of file once drained:
\* what it wrote before is still read by its listener
ProcessExit ==
  /\ proc_status = "running"
  /\ proc_status' = "exited"
  /\ UNCHANGED <<bin_path_exists, proc, stdin, listener, stale_listeners,
                 responses_read, next_id, responses, mgr_pc, start_result, call>>
  /\ UNCHANGED <<workflow_vars, topic_vars>>

\* ------------------------------------------------------------------------
\* Tool-call gateway: start and stop
\* ------------------------------------------------------------------------
\* variant of Running: the process object exists, its exit is not polled
RunningNoPoll == proc # 0

\* self._proc and self._proc.poll() is None
Running == proc # 0 /\ proc_status = "running"

\* start() up to time.sleep(1): spawn the child and its listener thread; the
\* listener of the process before, if it still reads, keeps running
Start ==
  /\ mgr_pc = "idle"
  /\ IF Running
     THEN /\ start_result' = "returned"
          /\ UNCHANGED <<proc, proc_status, listener, stale_listeners, mgr_pc>>
     ELSE IF ~bin_path_exists
     THEN /\ start_result' = "FileNotFoundError"
          /\ UNCHANGED <<proc, proc_status, listener, stale_listeners, mgr_pc>>
     ELSE /\ proc < MaxStarts
          /\ proc' = proc + 1
          /\ proc_status' = "running"
          /\ listener' = "reading"
          /\ stale_listeners' = IF listener = "reading" THEN stale_listeners + 1
                                ELSE stale_listeners
          /\ mgr_pc' = "sleeping"
          /\ start_result' = "none"
  /\ UNCHANGED <<bin_path_exists, stdin, responses_read, next_id, responses,
                 call>>
  /\ UNCHANGED <<workflow_vars, topic_vars>>

\* variant of StartCheck: start() returns without polling the child
StartCheckNoPoll ==
  /\ mgr_pc = "sleeping"
  /\ mgr_pc' = "idle"
  /\ start_result' = "returned"
  /\ UNCHANGED <<bin_path_exists, proc, proc_status, stdin, listener,
                 stale_listeners, responses_read, next_id, responses, call>>
  /\ UNCHANGED <<workflow_vars, topic_vars>>

\* start() after time.sleep(1): fail fast when the child has exited
StartCheck ==
  /\ mgr_pc = "sleeping"
  /\ mgr_pc' = "idle"
  /\ start_result' = IF proc_status # "running" THEN "RuntimeError"
                     ELSE "returned"
  /\ UNCHANGED <<bin_path_exists, proc, proc_status, stdin, listener,
                 stale_listeners, responses_read, next_id, responses, call>>
  /\ UNCHANGED <<workflow_vars, topic_vars>>

\* stop(): terminate, wait up to 5 s, kill; the child is gone when it returns
Stop ==
  /\ mgr_pc = "idle"
  /\ IF ~Running THEN UNCHANGED proc_status
     ELSE proc_status' = "stopped"
  /\ UNCHANGED <<bin_path_exists, proc, stdin, listener, stale_listeners,
                 responses_read, next_id, responses, mgr_pc, start_result, call>>
  /\ UNCHANGED <<workflow_vars, topic_vars>>

\* ------------------------------------------------------------------------
\* Tool-call gateway: _listen_stdout, one thread per process
\* ------------------------------------------------------------------------
\* the listener threads: the one of self._proc, those of the processes before
Listeners == {"current", "stale"}

\* the thread is in its for loop
Reading(who) ==
  IF who = "current" THEN listener = "reading" ELSE stale_listeners > 0

\* the thread leaves its loop: how is "finished" or "died"
ListenerEnds(who, how) ==
  IF who = "current"
  THEN listener' = how /\ UNCHANGED stale_listeners
  ELSE stale_listeners' = stale_listeners - 1 /\ UNCHANGED listener

\* when the response to a call was stored, if ever: "early" before the request
\* was written, "in_time" while the call was pending and its 30 s had not
\* passed, "late" after they had
Answered(k) ==
  IF k.answered = "in_time" THEN "in_time"
  ELSE IF k.pc = "write" THEN "early"
  ELSE IF k.expired THEN "late" ELSE "in_time"

\* self._response_cond.notify_all() after the responses with these ids were
\* stored: every thread inside wait() is woken
NotifyAll(cl, ids) ==
  [c \in DOMAIN cl |->
     [cl[c] EXCEPT !.notified = @ \/ (cl[c].pc = "waiting"),
                   !.answered = IF /\ cl[c].req_id \in ids
                                   /\ cl[c].pc \in {"write", "enter", "waiting"}
                                THEN Answered(cl[c]) ELSE @]]

\* self._responses[msg["id"]] = msg
StoreResponse(map, msg) ==
  [i \in (DOMAIN map) \cup {msg["id"]} |-> IF i = msg["id"] THEN msg ELSE map[i]]

\* one pass of the for loop: readline returns a line, it is decoded and handled
ListenerRead(who, line) ==
  /\ Reading(who)
  /\ IF line.parse = "invalid"
     THEN UNCHANGED <<listener, stale_listeners, responses_read, responses, call>>
     ELSE IF line.parse = "scalar"
     THEN \* "id" not in msg raises TypeError: the thread ends
          /\ ListenerEnds(who, "died")
          /\ UNCHANGED <<responses_read, responses, call>>
     ELSE IF "id" \notin DOMAIN line.msg
     THEN UNCHANGED <<listener, stale_listeners, responses_read, responses, call>>
     ELSE /\ responses_read < MaxResponses
          /\ responses_read' = responses_read + 1
          /\ responses' = StoreResponse(responses, line.msg)
          /\ call' = NotifyAll(call, {line.msg["id"]})
          /\ UNCHANGED <<listener, stale_listeners>>
  /\ UNCHANGED <<bin_path_exists, proc, proc_status, stdin, next_id, mgr_pc,
                 start_result>>
  /\ UNCHANGED <<workflow_vars, topic_vars>>

\* readline returns b"": the loop ends, the map is cleared, all waiters woken
ListenerEOF(who) ==
  /\ Reading(who)
  /\ who = "current" => proc_status \in {"exited", "stopped"}
  /\ ListenerEnds(who, "finished")
  /\ responses' = EmptyDict
  /\ call' = NotifyAll(call, {})
  /\ UNCHANGED <<bin_path_exists, proc, proc_status, stdin, responses_read,
                 next_id, mgr_pc, start_result>>
  /\ UNCHANGED <<workflow_vars, topic_vars>>

\* ------------------------------------------------------------------------
\* Tool-call gateway: call_tool, run by each calling thread
\* ------------------------------------------------------------------------
\* call_tool ends with an exception
Raise(k, exc, message, value) ==
  [k EXCEPT !.pc = "done", !.notified = FALSE, !.status = "raised",
            !.exc = exc, !.message = message, !.value = value]

\* call_tool ends with a value
Return(k, value) ==
  [k EXCEPT !.pc = "done", !.notified = FALSE, !.status = "returned",
            !.value = value]

\* variant of AllocateId: the counter is read and not advanced
AllocateIdNoIncrement(n) == [req_id |-> n, next_id |-> n]

\* with self._id_lock: req_id = self._next_id; self._next_id += 1
AllocateId(n) == [req_id |-> n, next_id |-> n + 1]

\* call_tool up to the request being built: the check of the process, then
\* the id. The threads are alike, so no behaviour is lost by letting them
\* call in the order of Callers
CallTool(c) ==
  /\ call[c].pc = "idle"
  /\ \A i \in 1..Len(Callers) :
       Callers[i] = c => \A j \in 1..(i - 1) : call[Callers[j]].pc # "idle"
  /\ IF ~Running
     THEN /\ call' = [call EXCEPT ![c] =
               Raise(@, "RuntimeError",
                     "MCP server not running; call start() first", 0)]
          /\ UNCHANGED next_id
     ELSE /\ call' = [call EXCEPT ![c] =
               [@ EXCEPT !.pc = "write",
                         !.req_id = AllocateId(next_id).req_id,
                         !.answered =
                            IF AllocateId(next_id).req_id \in DOMAIN responses
                            THEN "early" ELSE "no"]]
          /\ next_id' = AllocateId(next_id).next_id
  /\ UNCHANGED <<bin_path_exists, proc, proc_status, stdin, listener,
                 stale_listeners, responses_read, responses, mgr_pc,
                 start_result>>
  /\ UNCHANGED <<workflow_vars, topic_vars>>

\* self._proc.stdin.write(payload); flush(): EPIPE when the child has exited
WriteRequest(c) ==
  /\ call[c].pc = "write"
  /\ IF Running
     THEN /\ stdin' = stdin \cup {[method |-> "tools/call", id |-> call[c].req_id]}
          /\ call' = [call EXCEPT ![c].pc = "enter"]
     ELSE /\ call' = [call EXCEPT ![c] = Raise(@, "BrokenPipeError", "", 0)]
          /\ UNCHANGED stdin
  /\ UNCHANGED <<bin_path_exists, proc, proc_status, listener, stale_listeners,
                 responses_read, next_id, responses, mgr_pc, start_result>>
  /\ UNCHANGED <<workflow_vars, topic_vars>>

\* variant of PopResponse: the response is read and left in the map
PopResponseKeeping(map, id) == map

\* self._responses.pop(req_id): the map without the entry
PopResponse(map, id) == [i \in (DOMAIN map) \ {id} |-> map[i]]

\* the end of call_tool, the lock released: raise on "error", else the result
Deliver(k, response) ==
  IF "error" \in DOMAIN response
  THEN Raise(k, "RuntimeError", "", response["error"])
  ELSE IF "result" \in DOMAIN response
       THEN Return(k, response["result"])
       ELSE Return(k, response["id"])

\* variant of TimedOut: a wake-up that finds no response counts as the timeout
TimedOutOnWake(k) == TRUE

\* wait_for gives up: the 30 s since it was entered have passed
TimedOut(k) == k.expired

\* with self._response_cond: wait_for tests the predicate before it waits
WaitEnter(c) ==
  /\ call[c].pc = "enter"
  /\ IF call[c].req_id \in DOMAIN responses
     THEN /\ call' = [call EXCEPT ![c] = Deliver(@, responses[call[c].req_id])]
          /\ responses' = PopResponse(responses, call[c].req_id)
     ELSE /\ call' = [call EXCEPT ![c].pc = "waiting"]
          /\ UNCHANGED responses
  /\ UNCHANGED <<bin_path_exists, proc, proc_status, stdin, listener,
                 stale_listeners, responses_read, next_id, mgr_pc, start_result>>
  /\ UNCHANGED <<workflow_vars, topic_vars>>

\* the 30 s of a waiting call pass
TimerExpire(c) ==
  /\ call[c].pc = "waiting"
  /\ ~call[c].expired
  /\ call' = [call EXCEPT ![c].expired = TRUE]
  /\ UNCHANGED <<bin_path_exists, proc, proc_status, stdin, listener,
                 stale_listeners, responses_read, next_id, responses, mgr_pc,
                 start_result>>
  /\ UNCHANGED <<workflow_vars, topic_vars>>

\* wait() returns (notified or timed out), the lock is held again: the
\* predicate is tested; then pop, or TimeoutError, or wait for the rest
WakeUp(c) ==
  /\ call[c].pc = "waiting"
  /\ call[c].notified \/ call[c].expired
  /\ IF call[c].req_id \in DOMAIN responses
     THEN /\ call' = [call EXCEPT ![c] = Deliver(@, responses[call[c].req_id])]
          /\ responses' = PopResponse(responses, call[c].req_id)
     ELSE /\ call' = [call EXCEPT ![c] =
               IF TimedOut(@)
               THEN Raise(@, "TimeoutError", "No response from MCP server (30s)", 0)
               ELSE [@ EXCEPT !.notified = FALSE]]
          /\ UNCHANGED responses
  /\ UNCHANGED <<bin_path_exists, proc, proc_status, stdin, listener,
                 stale_listeners, responses_read, next_id, mgr_pc, start_result>>
  /\ UNCHANGED <<workflow_vars, topic_vars>>

\* the workflow engine takes no part in the gateway's behaviours
WorkflowIdle ==
  /\ dependencies = <<>>
  /\ max_retries = 0
  /\ phase = "new"
  /\ ctor_error = "ok"
  /\ layers = <<>>
  /\ root_agent = NoAgent
  /\ state = NewPipelineState
  /\ stack = <<>>
  /\ log = <<>>
  /\ calls = [n \in AgentNames |-> <<>>]
  /\ crashed = FALSE

GatewayInit ==
  /\ WorkflowIdle
  /\ TopicIdle
  /\ bin_path_exists \in BOOLEAN
  /\ MCPManagerNew

GatewayNext ==
  \/ Start
  \/ StartCheck
  \/ Stop
  \/ ProcessExit
  \/ \E who \in Listeners : \E line \in ProcessLines : ListenerRead(who, line)
  \/ \E who \in Listeners : ListenerEOF(who)
  \/ \E c \in RangeOf(Callers) : CallTool(c)
  \/ \E c \in RangeOf(Callers) : WriteRequest(c)
  \/ \E c \in RangeOf(Callers) : WaitEnter(c)
  \/ \E c \in RangeOf(Callers) : TimerExpire(c)
  \/ \E c \in RangeOf(Callers) : WakeUp(c)

GatewaySpec == GatewayInit /\ [][GatewayNext]_vars

\* time passes, and a thread that can leave wait() is scheduled
GatewayFairSpec ==
  GatewaySpec /\ \A c \in RangeOf(Callers) :
                   WF_vars(TimerExpire(c)) /\ WF_vars(WakeUp(c))

\* ------------------------------------------------------------------------
\* Vocabulary of the gateway properties
\* ------------------------------------------------------------------------
Threads == RangeOf(Callers)

\* call_tool raised the process-not-running error
NotRunningError(k) ==
  /\ k.status = "raised"
  /\ k.exc = "RuntimeError"
  /\ k.message = "MCP server not running; call start() first"

\* call_tool raised RuntimeError(response["error"])
ProtocolError(k) ==
  k.status = "raised" /\ k.exc = "RuntimeError" /\ k.message = ""

\* call_tool raised the timeout error
TimeoutError(k) == k.status = "raised" /\ k.exc = "TimeoutError"

\* call_tool ended on a response: its result returned or its error raised
EndedOnResponse(k) == k.pc = "done" /\ (k.status = "returned" \/ ProtocolError(k))

\* the request of the call has been written
Written(k) == \E r \in stdin : r.id = k.req_id

\* no process object, or one that has exited or was stopped
ProcessGone == proc = 0 \/ proc_status # "running"

\* the call of thread c ends in this step on the response stored for it
Matches(c) ==
  /\ call[c].pc \in {"enter", "waiting"}
  /\ call'[c].pc = "done"
  /\ call[c].req_id \in DOMAIN responses

\* ------------------------------------------------------------------------
\* Properties of the gateway
\* ------------------------------------------------------------------------
\* C11: with several calls pending and responses arriving in any order, a call
\* that ends on a response ends on one that carried its own correlation id,
\* received by a listener, never on the response of another call; and a
\* response stored after the request was written and before the caller begins
\* to wait is still there for it when it begins to wait.
C11_CallGetsOwnResponse ==
  \A c \in Threads :
    /\ EndedOnResponse(call[c]) =>
         (call[c].answered # "no" /\ call[c].value = call[c].req_id)
    /\ (call[c].pc = "enter" /\ call[c].answered = "in_time") =>
         call[c].req_id \in DOMAIN responses

\* C12: a call whose correlation id is never answered raises the timeout error,
\* not before its timeout has expired, and every waiting call ends: whether
\* the process is silent, sends other ids, notifications, or closes its stdout.
C12_UnansweredCallTimesOut ==
  /\ [](\A c \in Threads :
          /\ TimeoutError(call[c]) => call[c].expired
          /\ (call[c].pc = "done" /\ Written(call[c]) /\ call[c].answered = "no")
               => TimeoutError(call[c]))
  /\ \A c \in Threads : (call[c].pc = "waiting") ~> (call[c].pc = "done")

C12_Witness ==
  /\ TimeoutError(call["t1"])
  /\ call["t1"].answered = "no"
  /\ call["t1"].expired
  /\ responses_read >= 1
  /\ listener = "finished"

\* C13: the correlation ids of one gateway are handed out in strictly
\* increasing order and no two calls get the same id, also when the calls come
\* from different threads or the process was stopped and started in between.
C13_IdsStrictlyIncrease ==
  /\ [](\A c, d \in Threads :
          (c # d /\ call[c].req_id # 0) => call[c].req_id # call[d].req_id)
  /\ [][\A c \in Threads :
          (call[c].req_id = 0 /\ call'[c].req_id # 0) =>
             /\ \A d \in Threads : call'[c].req_id > call[d].req_id
             /\ next_id' > call'[c].req_id]_vars

C13_Witness ==
  /\ proc = 2
  /\ call["t1"].pc = "waiting"
  /\ call["t2"].pc = "waiting"
  /\ call["t1"].req_id = 1
  /\ call["t2"].req_id = 2
  /\ next_id = 3

\* C14: when the response matched to a call carries an error field, the call
\* raises a protocol error carrying that error and returns no result, and the
\* entry leaves the response map, as it does for a response without error.
C14_ErrorResponseRaises ==
  [][\A c \in Threads :
       Matches(c) =>
         /\ call[c].req_id \notin DOMAIN responses'
         /\ IF "error" \in DOMAIN responses[call[c].req_id]
            THEN /\ ProtocolError(call'[c])
                 /\ call'[c].value = responses[call[c].req_id]["error"]
            ELSE /\ call'[c].status = "returned"
                 /\ call'[c].value = responses[call[c].req_id]["result"]]_vars

C14_Witness ==
  /\ call["t1"].pc = "done"
  /\ ProtocolError(call["t1"])
  /\ call["t1"].value = call["t1"].req_id
  /\ call["t1"].req_id \notin DOMAIN responses
  /\ call["t2"].status = "returned"

PyStr(text) == PyValue("str", text)

PyList(items) == PyValue("list", items)

PyDict(items) == PyValue("dict", items)

\* raw.get(key, default)
DictGet(raw, key, default) ==
  IF key \in DOMAIN raw.v THEN raw.v[key] ELSE default

\* the five keys of a recommendation
RecKeys == {"title", "core_argument", "keywords", "score", "rationale"}

\* _format_rec
FormatRec(raw) ==
  IF raw.type = "dict"
  THEN [title |-> DictGet(raw, "title", PyStr("Untitled Topic")),
        core_argument |-> DictGet(raw, "core_argument", PyStr("TBD")),
        keywords |-> DictGet(raw, "keywords", PyList(<<>>)),
        score |-> DictGet(raw, "score", PyValue("float", 0)),
        rationale |-> DictGet(raw, "rationale", DictGet(raw, "data", raw))]
  ELSE [title |-> PyStr("Untitled Topic"),
        core_argument |-> PyStr("TBD"),
        keywords |-> PyList(<<>>),
        score |-> PyValue("float", 0),
        rationale |-> raw]

\* the message of the TypeError of iterating a value that is not iterable
NotIterable(value) == "'" \o value.type \o "' object is not iterable"

\* the last two statements of orchestrate(): wrap a single str/dict in a list,
\* then format every item; iterating a str or dict is avoided by the wrap, a
\* list is iterated, any other value here raises TypeError
Normalize(value) ==
  IF value.type \in {"str", "dict"}
  THEN [ok |-> TRUE, recs |-> <<FormatRec(value)>>, error |-> ""]
  ELSE IF value.type = "list"
       THEN [ok |-> TRUE,
             recs |-> [i \in 1..Len(value.v) |-> FormatRec(value.v[i])],
             error |-> ""]
       ELSE [ok |-> FALSE, recs |-> <<>>, error |-> NotIterable(value)]

\* what a producer's run_async returns (_stub)
Result(p) == "[STUB] " \o p \o " output"

\* {"trend": trend, "competition": comp, "keywords": keywords}
Joined ==
  [trend |-> Result(Producers[1]), competition |-> Result(Producers[2]),
   keywords |-> Result(Producers[3])]

\* count=self.topic_count * 2
IdeationCount(n) == n * 2

\* variant of ScoringTopN: the whole pool is asked for
ScoringTopNWholePool(n) == n * 2

\* top_n=self.topic_count
ScoringTopN(n) == n

\* the ideation step returns a pool of count candidates
Pool(count) == [i \in 1..count |-> i]

\* shapes of a candidate the scoring step hands back: a full record, partial
\* records, the record of the fallback stub, an empty record, and candidates
\* that are not records
FullRecord ==
  PyDict([title |-> PyStr("t"), core_argument |-> PyStr("c"),
          keywords |-> PyList(<<PyStr("k")>>), score |-> PyValue("float", 9),
          rationale |-> PyStr("r")])

TitleOnly == PyDict([title |-> PyStr("t")])

StubRecord ==
  PyDict([agent |-> PyStr("ScoringAgent"),
          data |-> PyStr("[STUB] ScoringAgent output")])

EmptyRecord == PyDict(EmptyDict)

RecordShapes == {FullRecord, TitleOnly, StubRecord, EmptyRecord}

ItemShapes == RecordShapes \cup {PyStr("idea"), PyValue("int", 7), PyNone}

\* the values the scoring step returns when asked for the top_n candidates:
\* at most top_n candidates (a list of them, or one candidate on its own),
\* well-formed or not, or no candidates at all as a value that is not a list
ScoredValues(top_n) ==
  {PyList([i \in 1..k |-> item]) : k \in 0..top_n, item \in ItemShapes}
    \cup {PyList(<<TitleOnly, PyStr("idea")>>) : k \in 2..top_n}
    \cup {item \in RecordShapes \cup {PyStr("idea")} : top_n >= 1}
    \cup {PyNone, PyValue("int", 0)}

\* "topic_recommendations" in state.metadata
HasRecommendations(st) == "topic_recommendations" \in DOMAIN st.metadata

\* state.metadata["topic_recommendations"] = recommendations
WriteRecommendations(st, recs) ==
  [st EXCEPT !.metadata =
     [k \in (DOMAIN @) \cup {"topic_recommendations"} |->
        IF k = "topic_recommendations" THEN recs ELSE @[k]]]

\* the unit as the workflow runs it: wrapped in a retry loop when max_retries > 1
TopicUnit ==
  WrapWithRetry([cls |-> "TopicGenerationAgent", name |-> "TopicGenerationAgent",
                 max_iterations |-> 0, sub_agents |-> <<>>], tg_max_retries)

\* the retry loop around the unit, at the end of the attempt being made
TopicFrame ==
  [agent |-> TopicUnit, iteration |-> tg_iteration,
   prev_error_count |-> ErrorCount(tg_state)]

\* the attempt ends in state st: the loop makes another one or the run is over
EndAttempt(st) ==
  /\ tg_state' = st
  /\ IF TopicUnit.cls = "LoopAgent" /\ LoopContinues(TopicFrame, st)
     THEN tg_pc' = "again" /\ tg_iteration' = tg_iteration + 1
     ELSE tg_pc' = "done" /\ tg_iteration' = tg_iteration

\* an exception leaves _execute: BaseAgent.run records it and returns the state
FailAttempt(message) ==
  EndAttempt(RecordError(tg_state, "TopicGenerationAgent", message))

\* BaseAgent.run -> _execute -> asyncio.run(orchestrate()) up to the gather:
\* the three limited(...) tasks are created
ExecuteStart ==
  /\ tg_pc \in {"new", "again"}
  /\ tg_pc' = "gather"
  /\ producer' = [p \in RangeOf(Producers) |-> "ready"]
  /\ ideation_request' = NoRequest
  /\ scoring_request' = NoRequest
  /\ scored' = PyNone
  /\ push' = "none"
  /\ UNCHANGED <<topic_count, notion_db_id, tg_max_retries, tg_state,
                 tg_iteration, rate_sem>>
  /\ UNCHANGED <<workflow_vars, gateway_vars>>

\* Semaphore.locked()
Locked(value) == value = 0

\* producers queued on the semaphore
Waiters(prod) == {q \in RangeOf(Producers) : prod[q] = "waiting"}

\* variant of SemRelease: the slot is not given back
SemReleaseLeaking(value) == value

\* Semaphore.release()
SemRelease(value) == value + 1

\* k tasks leave the async with block
RECURSIVE ReleaseTimes(_, _)
ReleaseTimes(value, k) ==
  IF k = 0 THEN value ELSE ReleaseTimes(SemRelease(value), k - 1)

\* async with self._rate_sem, entry: take a slot and start the producer's
\* call, or queue up when none is free
Acquire(p) ==
  /\ tg_pc = "gather"
  /\ producer[p] = "ready"
  /\ IF Locked(rate_sem)
     THEN /\ producer' = [producer EXCEPT ![p] = "waiting"]
          /\ rate_sem' = rate_sem
     ELSE /\ producer' = [producer EXCEPT ![p] = "in_flight"]
          /\ rate_sem' = rate_sem - 1
  /\ UNCHANGED <<topic_count, notion_db_id, tg_max_retries, tg_state, tg_pc,
                 tg_iteration, ideation_request, scoring_request, scored, push>>
  /\ UNCHANGED <<workflow_vars, gateway_vars>>

\* async with self._rate_sem, exit: the slot goes to the first producer that
\* queued for it, or back to the semaphore
LeaveLimited(p, outcome) ==
  LET left == [producer EXCEPT ![p] = outcome]
      first == CHOOSE i \in 1..Len(Producers) :
                 /\ Producers[i] \in Waiters(left)
                 /\ \A j \in 1..(i - 1) : Producers[j] \notin Waiters(left)
  IN  IF Waiters(left) = {}
      THEN producer' = left /\ rate_sem' = SemRelease(rate_sem)
      ELSE /\ producer' = [left EXCEPT ![Producers[first]] = "in_flight"]
           /\ rate_sem' = rate_sem

\* return await coro: the producer's call returns
ProducerReturn(p) ==
  /\ tg_pc = "gather"
  /\ producer[p] = "in_flight"
  /\ LeaveLimited(p, "returned")
  /\ UNCHANGED <<topic_count, notion_db_id, tg_max_retries, tg_state, tg_pc,
                 tg_iteration, ideation_request, scoring_request, scored, push>>
  /\ UNCHANGED <<workflow_vars, gateway_vars>>

\* return await coro: the producer's call raises
ProducerRaise(p) ==
  /\ tg_pc = "gather"
  /\ producer[p] = "in_flight"
  /\ LeaveLimited(p, "raised")
  /\ UNCHANGED <<topic_count, notion_db_id, tg_max_retries, tg_state, tg_pc,
                 tg_iteration, ideation_request, scoring_request, scored, push>>
  /\ UNCHANGED <<workflow_vars, gateway_vars>>

\* variant of JoinDone: the join waits for every task to settle, as gather
\* does with return_exceptions=True
JoinDoneAllSettled(prod) ==
  \A p \in RangeOf(Producers) : prod[p] \in {"returned", "raised"}

\* await asyncio.gather(...) has its three results
JoinDone(prod) == \A p \in RangeOf(Producers) : prod[p] = "returned"

\* await asyncio.gather(...) raises the first exception of a task; every task
\* has taken its first step by then
JoinFailed(prod) ==
  /\ \E p \in RangeOf(Producers) : prod[p] = "raised"
  /\ \A p \in RangeOf(Producers) : prod[p] # "ready"

\* the gather raises: asyncio.run cancels the tasks still pending, which leave
\* their async with block, and the exception leaves _execute
JoinFails ==
  /\ tg_pc = "gather"
  /\ JoinFailed(producer)
  /\ producer' = [p \in RangeOf(Producers) |->
                    IF producer[p] \in {"in_flight", "waiting"}
                    THEN "cancelled" ELSE producer[p]]
  /\ rate_sem' = ReleaseTimes(rate_sem,
                   Cardinality({p \in RangeOf(Producers) :
                                  producer[p] = "in_flight"}))
  /\ FailAttempt("producer failed")
  /\ UNCHANGED <<topic_count, notion_db_id, tg_max_retries, ideation_request,
                 scoring_request, scored, push>>
  /\ UNCHANGED <<workflow_vars, gateway_vars>>

\* the gather returns and ideation_agent.run_async is called
JoinReturns ==
  /\ tg_pc = "gather"
  /\ JoinDone(producer)
  /\ tg_pc' = "ideation"
  /\ ideation_request' =
       [made |-> TRUE, count |-> IdeationCount(topic_count), top_n |-> 0,
        ideas |-> <<>>, context |-> Joined]
  /\ UNCHANGED <<topic_count, notion_db_id, tg_max_retries, tg_state,
                 tg_iteration, producer, rate_sem, scoring_request, scored,
                 push>>
  /\ UNCHANGED <<workflow_vars, gateway_vars>>

\* ideation returns its pool and scoring_agent.run_async is called
IdeationReturns ==
  /\ tg_pc = "ideation"
  /\ tg_pc' = "scoring"
  /\ scoring_request' =
       [made |-> TRUE, count |-> 0, top_n |-> ScoringTopN(topic_count),
        ideas |-> Pool(ideation_request.count), context |-> Joined]
  /\ UNCHANGED <<topic_count, notion_db_id, tg_max_retries, tg_state,
                 tg_iteration, producer, rate_sem, ideation_request, scored,
                 push>>
  /\ UNCHANGED <<workflow_vars, gateway_vars>>

\* the ideation or the scoring call raises
SubAgentRaises ==
  /\ tg_pc \in {"ideation", "scoring"}
  /\ FailAttempt(tg_pc \o " failed")
  /\ UNCHANGED <<topic_count, notion_db_id, tg_max_retries, producer,
                 rate_sem, ideation_request, scoring_request, scored, push>>
  /\ UNCHANGED <<workflow_vars, gateway_vars>>

\* if not self.notion_db_id
Configured(db) == db \notin {"None", ""}

\* scoring returns value: it is normalised, the list is written to the state
\* and, when a destination is configured, the forward comes next
ScoringReturns(value) ==
  /\ tg_pc = "scoring"
  /\ scored' = value
  /\ LET normal == Normalize(value)
         written == WriteRecommendations(tg_state, normal.recs)
     IN  IF ~normal.ok
         THEN FailAttempt(normal.error)
         ELSE IF Configured(notion_db_id)
              THEN /\ tg_state' = written
                   /\ tg_pc' = "push"
                   /\ tg_iteration' = tg_iteration
              ELSE EndAttempt(written)
  /\ UNCHANGED <<topic_count, notion_db_id, tg_max_retries, producer,
                 rate_sem, ideation_request, scoring_request, push>>
  /\ UNCHANGED <<workflow_vars, gateway_vars>>

\* what the forward does: it goes through, the import of the client fails,
\* or push_to_notion raises
PushOutcomes == {"ok", "ImportError", "Exception"}

\* variant of CaughtByPush: only the failed import is caught
CaughtByPushImportOnly(outcome) == outcome = "ImportError"

\* except Exception
CaughtByPush(outcome) == outcome \in {"ImportError", "Exception"}

\* _maybe_push_to_notion with a destination configured, and the return of
\* _execute
Push(outcome) ==
  /\ tg_pc = "push"
  /\ push' = IF outcome = "ok" THEN "ok" ELSE "failed"
  /\ IF outcome = "ok" \/ CaughtByPush(outcome)
     THEN EndAttempt(tg_state)
     ELSE FailAttempt("push failed")
  /\ UNCHANGED <<topic_count, notion_db_id, tg_max_retries, producer,
                 rate_sem, ideation_request, scoring_request, scored>>
  /\ UNCHANGED <<workflow_vars, gateway_vars>>

\* the configurations of the unit
TopicInit ==
  /\ WorkflowIdle
  /\ bin_path_exists = TRUE
  /\ MCPManagerNew
  /\ tg_max_retries \in 1..MaxTopicRetries
  /\ \E n \in 0..MaxTopicCount, db \in {"None", "notion-db"} :
       TopicAgentNew(n, db)

TopicNext ==
  \/ ExecuteStart
  \/ \E p \in RangeOf(Producers) : Acquire(p)
  \/ \E p \in RangeOf(Producers) : ProducerReturn(p)
  \/ \E p \in RangeOf(Producers) : ProducerRaise(p)
  \/ JoinFails
  \/ JoinReturns
  \/ IdeationReturns
  \/ SubAgentRaises
  \/ \E value \in ScoredValues(scoring_request.top_n) : ScoringReturns(value)
  \/ \E outcome \in PushOutcomes : Push(outcome)

TopicSpec == TopicInit /\ [][TopicNext]_vars

\* the event loop runs every task that is ready, and the producers' calls end
TopicFairSpec ==
  /\ TopicSpec
  /\ \A p \in RangeOf(Producers) :
       /\ WF_vars(Acquire(p))
       /\ WF_vars(ProducerReturn(p) \/ ProducerRaise(p))

\* ------------------------------------------------------------------------
\* Properties of the topic-generation unit
\* ------------------------------------------------------------------------
\* producer calls admitted through the limiter and not yet returned
InFlight == Cardinality({p \in RangeOf(Producers) : producer[p] = "in_flight"})

\* the producer's call has been started
Started(p) == producer[p] \in {"in_flight", "returned", "raised"}

TopicErrors == MetaGet(tg_state.metadata, "errors")

Recommendations == tg_state.metadata["topic_recommendations"]

\* C16: at every moment the producer calls in flight are at most the cap of
\* 3, each holding one slot of the limiter, and a producer whose task was
\* created or that waits for a slot is eventually started
C16_LimiterBoundsInFlight ==
  /\ [](InFlight <= RateLimit /\ rate_sem = RateLimit - InFlight)
  /\ \A p \in RangeOf(Producers) :
       (producer[p] \in {"ready", "waiting"}) ~> Started(p)

\* all three producers are in flight in a second attempt: the limiter is full
C16_Witness ==
  /\ InFlight = RateLimit
  /\ rate_sem = 0
  /\ tg_iteration = 2

Candidates(value) == IF value.type = "list" THEN value.v ELSE <<value>>

\* the candidate is a structured record that has the field
HasField(candidate, key) ==
  candidate.type = "dict" /\ key \in DOMAIN candidate.v

\* the entry has the five fields, each taken from the candidate or defaulted,
\* and a candidate that is not a structured record is whole in rationale
NormalFormOf(entry, candidate) ==
  /\ DOMAIN entry = RecKeys
  /\ entry.title = IF HasField(candidate, "title")
                   THEN candidate.v["title"] ELSE PyStr("Untitled Topic")
  /\ entry.core_argument = IF HasField(candidate, "core_argument")
                           THEN candidate.v["core_argument"] ELSE PyStr("TBD")
  /\ entry.keywords = IF HasField(candidate, "keywords")
                      THEN candidate.v["keywords"] ELSE PyList(<<>>)
  /\ entry.score = IF HasField(candidate, "score")
                   THEN candidate.v["score"] ELSE PyValue("float", 0)
  /\ candidate.type # "dict" => entry.rationale = candidate
  /\ HasField(candidate, "rationale") =>
       entry.rationale = candidate.v["rationale"]

\* C18: whatever value the scoring step returns, normalization does not fail:
\* the step that takes the value writes a list to the state, one entry per
\* candidate, each with exactly the five fields, defaulted where missing, a
\* candidate that is not a structured record whole in rationale
C18_NormalizationTotal ==
  [][\A value \in ScoredValues(scoring_request.top_n) :
       ScoringReturns(value) =>
         /\ TopicErrors' = TopicErrors
         /\ HasRecommendations(tg_state')
         /\ Len(Recommendations') = Len(Candidates(value))
         /\ \A i \in 1..Len(Candidates(value)) :
              NormalFormOf(Recommendations'[i], Candidates(value)[i])]_vars

\* the budget of attempts of the unit
TopicBudget == IF tg_max_retries <= 1 THEN 1 ELSE tg_max_retries

\* a producer of the attempt being made has failed
ProducerFailed == \E p \in RangeOf(Producers) : producer[p] = "raised"

\* C19: when a producer has failed, ideation and scoring are not invoked in
\* that attempt, no list is written and no forward is attempted; the attempt
\* ends with exactly one more error record, naming the unit, and is made again
\* while attempts remain, after which the run is over
C19_ProducerFailureFailsAttempt ==
  /\ [](ProducerFailed =>
          /\ ~ideation_request.made
          /\ ~scoring_request.made
          /\ ~HasRecommendations(tg_state)
          /\ push = "none"
          /\ tg_pc \in {"gather", "again", "done"})
  /\ [][(ProducerFailed /\ tg_pc = "gather" /\ tg_pc' # "gather") =>
          /\ Len(TopicErrors') = Len(TopicErrors) + 1
          /\ SubSeq(TopicErrors', 1, Len(TopicErrors)) = TopicErrors
          /\ TopicErrors'[Len(TopicErrors')].agent = "TopicGenerationAgent"
          /\ tg_pc' = IF tg_iteration < TopicBudget THEN "again" ELSE "done"
          /\ tg_iteration' = IF tg_iteration < TopicBudget
                             THEN tg_iteration + 1 ELSE tg_iteration]_vars
  /\ [][(tg_pc = "again" /\ tg_pc' # "again") =>
          /\ tg_pc' = "gather"
          /\ \A p \in RangeOf(Producers) : producer'[p] = "ready"]_vars

\* a producer failed in the first attempt while another one had returned:
\* one error names the unit and a second attempt is to be made
C19_Witness ==
  /\ ProducerFailed
  /\ \E p \in RangeOf(Producers) : producer[p] = "returned"
  /\ tg_pc = "again"
  /\ tg_iteration = 2
  /\ Len(TopicErrors) = 1
  /\ TopicErrors[1].agent = "TopicGenerationAgent"

\* C20: the forward is attempted only with a destination configured and only
\* after the list is in the state; a forward that fails adds no error record,
\* ends the run without another attempt and leaves the list as it was
C20_ForwardIsBestEffort ==
  /\ []((tg_pc = "push" \/ push # "none") =>
          Configured(notion_db_id) /\ HasRecommendations(tg_state))
  /\ [][(push # "failed" /\ push' = "failed") =>
          /\ TopicErrors' = TopicErrors
          /\ tg_pc' = "done"
          /\ tg_iteration' = tg_iteration
          /\ tg_state' = tg_state]_vars

\* the forward failed although another attempt was in the budget: the run is
\* over with the list in the state and no error recorded
C20_Witness ==
  /\ push = "failed"
  /\ tg_pc = "done"
  /\ tg_max_retries = 2
  /\ tg_iteration = 1
  /\ HasRecommendations(tg_state)
  /\ Len(Recommendations) >= 1
  /\ TopicErrors = <<>>

\* ------------------------------------------------------------------------
\* Properties of the unit wrapper, the retry loop and the layers
\* ------------------------------------------------------------------------
\* the call of u's _execute that ends in this step raises
Fails(u) == calls'[u] = Append(calls[u], "raised")

\* the record BaseAgent.run appends for the failure that ends in this step
FailureRecord(u) == [agent |-> u, error |-> Len(calls'[u])]

\* C21 as stated: when a unit's execute fails the returned state is the state
\* before the invocation plus exactly one new error record; nothing the unit
\* changed before failing is in it
C21_FailureLeavesPriorState ==
  [][\A u \in AgentNames :
       Fails(u) =>
         /\ Errors' = Append(Errors, FailureRecord(u))
         /\ \A key \in (DOMAIN state'.metadata) \ {"errors"} :
              /\ key \in DOMAIN state.metadata
              /\ state'.metadata[key] = state.metadata[key]]_vars

\* C21 as amended: when a unit's execute fails the wrapper returns the state
\* object it was given with exactly one new error record appended (the list
\* created if absent) and undoes nothing: what the unit changed in place
\* before failing, here its entry in events, is in the returned state
C21_FailureAppendsOneError ==
  [][\A u \in AgentNames :
       Fails(u) =>
         /\ Errors' = Append(Errors, FailureRecord(u))
         /\ Events' = Append(Events, u)
         /\ DOMAIN state'.metadata = {"errors", "events"}]_vars

\* a unit failed on its first call with no error recorded before: the list
\* was created with the one record, and the event of the failed call is there
C21_Witness ==
  /\ calls["AgentA"] = <<"raised">>
  /\ Errors = <<[agent |-> "AgentA", error |-> 1]>>
  /\ Events = <<"AgentA">>

\* C22: a unit is invoked again only after an attempt that raised and while
\* attempts remain; an attempt that returns is its last, so a unit whose first
\* attempt returns is invoked exactly once whatever the budget, and with a
\* budget <= 1 every unit is invoked exactly once
C22_RetryOnlyAfterNewError ==
  Constructed =>
    \A u \in AgentNames :
      /\ \A k \in 1..(Len(calls[u]) - 1) : calls[u][k] = "raised"
      /\ Invocations(u) <= Budget
      /\ Len(calls[u]) <= Invocations(u)
      /\ (Len(calls[u]) >= 1 /\ calls[u][Len(calls[u])] = "returned") =>
           Invocations(u) = Len(calls[u])
      /\ (Len(calls[u]) >= 1 /\ calls[u][1] = "returned") => Invocations(u) = 1
      /\ phase = "done" =>
           /\ Invocations(u) >= 1
           /\ max_retries <= 1 => Invocations(u) = 1
           /\ AlwaysRaised(u) => Invocations(u) = Budget

\* with a budget of 3, one unit returned at once and ran once, another failed
\* once and ran twice
C22_Witness ==
  /\ phase = "done"
  /\ max_retries = 3
  /\ calls["AgentA"] = <<"returned">>
  /\ Invocations("AgentA") = 1
  /\ calls["AgentB"] = <<"raised", "returned">>
  /\ Invocations("AgentB") = 2

\* the units that run in the same parallel layer as u, u itself left out
Siblings(block, u) == RangeOf(BlockUnits(block)) \ {u}

\* C23: a child of a parallel layer is handed the pre-layer state: while its
\* execute runs, the state holds no event and no error record of a sibling of
\* the same layer
C23_ChildrenSeePreLayerState ==
  \A i \in 1..Len(stack) :
    (/\ stack[i].agent.cls = "ParallelAgent"
     /\ i < Len(stack)
     /\ IsUnit(Top.agent)) =>
       \A v \in Siblings(stack[i].agent, Top.agent.name) :
         /\ ~Contains(Events, v)
         /\ ErrorsNaming(v) = 0

\* the attempts of u are over: its last call returned or its budget is spent
AttemptsOver(u) ==
  /\ Len(calls[u]) >= 1
  /\ Invocations(u) = Len(calls[u])
  /\ calls[u][Len(calls[u])] = "returned" \/ Len(calls[u]) = Budget

\* C24: layers are barriers: when a unit of a later layer is first invoked,
\* every unit of every earlier layer has been invoked and has finished all its
\* attempts, and is not invoked again, whether or not an edge connects the two
C24_LayersAreBarriers ==
  \A i, j \in 1..Len(layers) :
    i < j =>
      \A u \in RangeOf(layers[i]), v \in RangeOf(layers[j]) :
        /\ RunsWhollyBefore(u, v)
        /\ Invocations(v) >= 1 => AttemptsOver(u)

\* B depends on A only, so C shares the first layer with A: C used up its two
\* attempts before B, which it has no edge to, was invoked
C24_Witness ==
  /\ dependencies = <<[agent_name |-> "AgentB", dep_list |-> <<"AgentA">>]>>
  /\ phase = "done"
  /\ max_retries = 2
  /\ layers = <<<<"AgentA", "AgentC">>, <<"AgentB">>>>
  /\ calls["AgentC"] = <<"raised", "raised">>
  /\ Events = <<"AgentA", "AgentC", "AgentC", "AgentB">>

\* ------------------------------------------------------------------------
\* Properties of the gateway's listener and bookkeeping
\* ------------------------------------------------------------------------
\* the lines that are not correlated responses
NonResponseLines == {Notification, LogText, JsonScalar}

\* C26: the listener survives every line: a notification, text that is not
\* JSON and JSON that is not an object are dropped, the response map and
\* every call are left as they were, and the listener goes on reading
C26_ListenerSurvivesEveryLine ==
  [][\A who \in Listeners : \A line \in NonResponseLines :
       ListenerRead(who, line) =>
         /\ responses' = responses
         /\ call' = call
         /\ Reading(who)']_vars

\* a call with this correlation id is pending
Pending(id) ==
  \E c \in Threads :
    call[c].req_id = id /\ call[c].pc \in {"write", "enter", "waiting"}

\* C27: the response map holds only responses to calls that are pending: a
\* response whose call has timed out, or that answers no call, is not there
C27_OnlyPendingResponsesStored ==
  \A id \in DOMAIN responses : Pending(id)

\* C28: the entry of a call is removed when the call is matched, and the map
\* is empty when the listener has seen its channel close
C28_EntriesRemoved ==
  [][/\ \A c \in Threads :
          Matches(c) => call[c].req_id \notin DOMAIN responses'
     /\ (listener = "reading" /\ listener' = "finished") =>
          responses' = EmptyDict]_vars

\* one call ended on its response, a second response that no call took was
\* read, the channel closed and the map is empty
C28_Witness ==
  /\ EndedOnResponse(call["t1"])
  /\ call["t2"].pc = "idle"
  /\ responses_read = 2
  /\ listener = "finished"
  /\ responses = EmptyDict

\* the lifecycle state of the gateway's process, as the caller of start() and
\* stop() sees it
Lifecycle ==
  IF mgr_pc = "sleeping" THEN "starting"
  ELSE IF proc = 0 \/ proc_status = "stopped" THEN "stopped"
  ELSE IF proc_status = "running" THEN "running"
  ELSE "failed"

\* the moves of the lifecycle; stop() is one step, so running -> stopping ->
\* stopped shows as running -> stopped
LifecycleMoves ==
  {<<"stopped", "starting">>, <<"starting", "running">>,
   <<"running", "stopping">>, <<"stopping", "stopped">>,
   <<"running", "stopped">>,
   <<"starting", "failed">>, <<"running", "failed">>}

\* C29: the lifecycle moves only along stopped -> starting -> running ->
\* stopping -> stopped, or to failed when the process exits on its own;
\* nothing leaves failed; start on a running gateway and stop on a stopped
\* one change nothing
C29_LifecycleMoves ==
  [][/\ Lifecycle' # Lifecycle => <<Lifecycle, Lifecycle'>> \in LifecycleMoves
     /\ Lifecycle = "failed" => Lifecycle' = "failed"
     /\ ((Start /\ Lifecycle = "running") \/ (Stop /\ Lifecycle = "stopped")) =>
          UNCHANGED <<proc, proc_status, stdin, listener, stale_listeners,
                      next_id, responses, call>>]_vars

\* C30: a start whose process has exited when the grace window ends raises,
\* and while that is how the last start ended the process is gone and every
\* call raises the not-running error; with the executable missing start
\* raises and there is never a process or a listener
C30_StartFailsFast ==
  /\ [][(mgr_pc = "sleeping" /\ mgr_pc' = "idle" /\ proc_status # "running") =>
          start_result' = "RuntimeError"]_vars
  /\ [](start_result = "RuntimeError" => ProcessGone)
  /\ [][\A c \in Threads :
          (/\ start_result = "RuntimeError"
           /\ call[c].pc = "idle"
           /\ call'[c].pc # "idle") => NotRunningError(call'[c])]_vars
  /\ [](~bin_path_exists =>
          /\ proc = 0
          /\ listener = "none"
          /\ stale_listeners = 0
          /\ start_result \in {"none", "FileNotFoundError"})
  /\ [][(~bin_path_exists /\ start_result' # start_result) =>
          start_result' = "FileNotFoundError"]_vars

\* the first start raised because its process had exited, a call then raised
\* the not-running error, and a second start has succeeded
C30_Witness ==
  /\ proc = 2
  /\ start_result = "returned"
  /\ Running
  /\ NotRunningError(call["t1"])
  /\ call["t2"].pc = "idle"

\* ------------------------------------------------------------------------
\* Order of the stages of the topic-generation unit
\* ------------------------------------------------------------------------
\* the results of the three producers, under the keys the later stages read
JoinedResults ==
  [trend |-> Result("TrendAnalysisAgent"),
   competition |-> Result("CompetitorResearchAgent"),
   keywords |-> Result("KeywordResearchAgent")]

\* C31: in the attempt being made, ideation is called only when all three
\* producers have returned, scoring only when ideation has returned, the list
\* is in the state only when scoring has returned, and ideation and scoring
\* are handed the same joined results of the producers
C31_StagesInOrder ==
  /\ ideation_request.made =>
       /\ \A p \in RangeOf(Producers) : producer[p] = "returned"
       /\ tg_pc # "gather"
       /\ ideation_request.context = JoinedResults
  /\ scoring_request.made =>
       /\ ideation_request.made
       /\ tg_pc \notin {"gather", "ideation"}
       /\ scoring_request.context = ideation_request.context
       /\ scoring_request.ideas = Pool(ideation_request.count)
  /\ HasRecommendations(tg_state) =>
       /\ scoring_request.made
       /\ tg_pc \in {"push", "done"}
       /\ scored.type \in {"list", "str", "dict"}

\* a second attempt, made after a failed first one, went through all stages
C31_Witness ==
  /\ tg_iteration = 2
  /\ tg_pc = "done"
  /\ \A p \in RangeOf(Producers) : producer[p] = "returned"
  /\ ideation_request.made
  /\ scoring_request.made
  /\ HasRecommendations(tg_state)
  /\ Len(Recommendations) = 2

\* C32: a call whose response was stored by a listener while the call was
\* pending and its timeout had not expired ends on that response: it does not
\* raise the timeout error, and its response is in the map until it takes it
C32_ReceivedResponseIsDelivered ==
  \A c \in Threads :
    call[c].answered = "in_time" =>
      /\ ~TimeoutError(call[c])
      /\ call[c].pc \in {"enter", "waiting"} =>
           call[c].req_id \in DOMAIN responses

\* ------------------------------------------------------------------------
\* Properties of the compiled layering
\* ------------------------------------------------------------------------
\* the layer the compiled layering puts a unit in (the first layer is 1)
LayerOf(u) == CHOOSE i \in 1..Len(layers) : Contains(layers[i], u)

\* the largest layer among the prerequisites of a unit
LastPrereqLayer(u) ==
  CHOOSE m \in {LayerOf(d) : d \in Prereqs(dependencies, u)} :
    \A d \in Prereqs(dependencies, u) : LayerOf(d) <= m

\* C33: the compiled layering is the earliest possible one: every unit is in
\* exactly one layer, a unit without prerequisites is in the first layer, and
\* every other unit is in the layer right after the last layer that holds one
\* of its prerequisites, so the layer before it holds one of them
C33_EarliestLayering ==
  layers # <<>> =>
    \A u \in AgentNames :
      /\ Cardinality({i \in 1..Len(layers) : Contains(layers[i], u)}) = 1
      /\ Prereqs(dependencies, u) = {} => LayerOf(u) = 1
      /\ Prereqs(dependencies, u) # {} =>
           /\ LayerOf(u) = 1 + LastPrereqLayer(u)
           /\ \E d \in Prereqs(dependencies, u) :
                Contains(layers[LayerOf(u) - 1], d)

\* C depends on A (first layer) and on B (second layer): it is compiled into
\* the third layer, one after the later of the two
C33_Witness ==
  /\ phase = "built"
  /\ dependencies =
       <<[agent_name |-> "AgentB", dep_list |-> <<"AgentA">>],
         [agent_name |-> "AgentC", dep_list |-> <<"AgentA", "AgentB">>]>>
  /\ layers = <<<<"AgentA">>, <<"AgentB">>, <<"AgentC">>>>

\* a prerequisite list with every name kept at its first occurrence only
RECURSIVE WithoutDuplicates(_)
WithoutDuplicates(dep_list) ==
  IF dep_list = <<>> THEN <<>>
  ELSE LET front == WithoutDuplicates(SubSeq(dep_list, 1, Len(dep_list) - 1))
           last  == dep_list[Len(dep_list)]
       IN  IF Contains(front, last) THEN front ELSE Append(front, last)

\* the mapping with the duplicates of every prerequisite list removed
DuplicatesRemoved(deps) ==
  [i \in 1..Len(deps) |->
     [agent_name |-> deps[i].agent_name,
      dep_list |-> WithoutDuplicates(deps[i].dep_list)]]

\* C34: naming a prerequisite more than once does not change the outcome of
\* the constructor: the mapping is accepted exactly when the mapping without
\* the duplicates is, and with the same layering
C34_DuplicatesDoNotMatter ==
  (phase \in {"built", "rejected"} /\ ResolveDeps(dependencies, 1) = "ok") =>
    LET clean == BuildWorkflow(DuplicatesRemoved(dependencies), max_retries)
    IN  /\ ctor_error = clean.error
        /\ layers = clean.layers

\* ------------------------------------------------------------------------
\* Properties of the error records and of the retries of a parallel layer
\* ------------------------------------------------------------------------
\* the record is the record of a failed invocation of a declared unit (the
\* message of a unit's k-th invocation is k)
RecordsFailedCall(rec) ==
  /\ rec.agent \in AgentNames
  /\ rec.error \in 1..Len(calls[rec.agent])
  /\ calls[rec.agent][rec.error] = "raised"

\* C35: at every moment of a run, and so at its end, metadata.errors holds for
\* every unit as many records as invocations of the unit have failed; every
\* record is the record of one failed invocation of a declared unit, none
\* is the record of a composite node or of run itself, and no failed
\* invocation has two records
C35_OneRecordPerFailure ==
  /\ \A u \in AgentNames : ErrorsNaming(u) = Raised(u)
  /\ \A i \in 1..Len(Errors) :
       /\ RecordsFailedCall(Errors[i])
       /\ Errors[i].agent \notin StubClasses \cup {"WorkflowManager"}
  /\ \A i, j \in 1..Len(Errors) : i # j => Errors[i] # Errors[j]

\* a run over a parallel layer (A and C) and a retried unit: A failed twice
\* inside the layer's retry wrapper, B once, and the four nodes around them
\* added nothing to the three records
C35_Witness ==
  /\ phase = "done"
  /\ dependencies = <<[agent_name |-> "AgentB", dep_list |-> <<"AgentA">>]>>
  /\ max_retries = 2
  /\ calls["AgentA"] = <<"raised", "raised">>
  /\ calls["AgentB"] = <<"raised", "returned">>
  /\ calls["AgentC"] = <<"returned">>
  /\ Len(Errors) = 3

\* the retry wrapper of unit u, a child of a parallel layer, has run its unit
\* and is about to decide whether to run it again
AtRetryDecision(u) ==
  /\ Len(stack) >= 2
  /\ Top.agent.cls = "LoopAgent"
  /\ stack[Len(stack) - 1].agent.cls = "ParallelAgent"
  /\ UnitNameOf(Top.agent) = u
  /\ ~HasNextSubAgent(Top, state)

\* C36: in a parallel layer the retry decision of a unit depends on the
\* unit's own attempts only: its wrapper runs it again exactly when its last
\* attempt raised and attempts remain, whatever the siblings of the layer
\* did; so at the end of the run a unit of a parallel layer whose first
\* attempt returned was invoked once, also next to a sibling that raised on
\* every attempt, and a unit that raised on every attempt was invoked as often
\* as the budget allows
C36_RetriesIgnoreSiblings ==
  \A u \in AgentNames :
    /\ AtRetryDecision(u) =>
         (LoopContinues(Top, state) <=>
            /\ calls[u][Len(calls[u])] = "raised"
            /\ Len(calls[u]) < max_retries)
    /\ phase = "done" =>
         \A i \in 1..Len(layers) :
           (Len(layers[i]) >= 2 /\ Contains(layers[i], u)) =>
             /\ (Len(calls[u]) >= 1 /\ calls[u][1] = "returned") =>
                  Invocations(u) = 1
             /\ AlwaysRaised(u) => Invocations(u) = Budget

\* A and C share the first layer: A raised on each of its three attempts, then
\* C returned at once and was not invoked again
C36_Witness ==
  /\ phase = "done"
  /\ max_retries = 3
  /\ layers = <<<<"AgentA", "AgentC">>, <<"AgentB">>>>
  /\ calls["AgentA"] = <<"raised", "raised", "raised">>
  /\ Invocations("AgentA") = 3
  /\ calls["AgentC"] = <<"returned">>
  /\ Invocations("AgentC") = 1
====
